---- MODULE Spec2Model ----
(***************************************************************************)
(* Model of src/hackathon/app.js: the App component that owns a Tesseract  *)
(* worker, runs OCR on captured or uploaded images and sends the text to   *)
(* the /api/search backend.                                                *)
(*                                                                         *)
(* One action is one event-loop task: a handler or promise continuation    *)
(* runs up to its next await of an external call (worker.load, recognize,  *)
(* fetch, res.text, res.json, FileReader).  Continuations that follow an   *)
(* await of an already settled internal promise (await runOcr(...) after   *)
(* runOcr returns) run in the same task and belong to the same action.     *)
(*                                                                         *)
(* The React state variables hold the value last passed to their setter.   *)
(* The worker, the backend and the FileReader are the environment: a call  *)
(* in flight may resolve or reject at any later time.                      *)
(***************************************************************************)
EXTENDS Integers, Sequences, FiniteSets, TLC

\* ---------------------------------------------------------------- bounds
\* Number of OCR jobs (handleCapture / reader.onload runs) in one behaviour.
MaxJobs == 2

JobIds == 1..MaxJobs

\* ------------------------------------------------------------ input sets
Null == "<null>"

\* Data URLs produced by the camera or the FileReader.
Images == {"imgA"}

\* Characters of recognized text; " " is whitespace.
Whitespace == {" "}

\* data.text values the worker may return (sequences of characters).
RawTexts == {<< >>, <<" ">>, <<"a">>, <<" ", "b", " ">>}

\* The value recognize() resolves with: { data }, where data may be missing.
RecognizeResults ==
    {[hasData |-> FALSE, text |-> << >>]} \cup [hasData : {TRUE}, text : RawTexts]

\* m.progress values of logger messages, in thousandths (495 is 0.495).
ProgressValues == {495, 1000}

LoggerStatuses == {"recognizing text", "initializing api"}

\* Logger messages m = { status, progress }; progress may be absent.
LoggerMessages ==
    [status : LoggerStatuses, hasProgress : {FALSE}, progress : {0}]
        \cup [status : LoggerStatuses, hasProgress : {TRUE}, progress : ProgressValues]

\* Bodies of a 2xx backend response, parsed by res.json().
MatchLists == {<< >>, <<"m2", "m1">>}

ResponseWarnings == {Null, "", "low confidence"}

JsonBodies ==
    {[isObject |-> FALSE, hasMatches |-> FALSE, matches |-> << >>, warning |-> Null]}
        \cup [isObject : {TRUE}, hasMatches : {FALSE}, matches : {<< >>},
               warning : ResponseWarnings]
        \cup [isObject : {TRUE}, hasMatches : {TRUE}, matches : MatchLists,
               warning : ResponseWarnings]

NoTextWarning == "No text found by OCR."

ServerErrorWarning == "Server error when searching. Check backend."

NetworkErrorWarning == "Network error when contacting backend."

NotReadyAlert == "OCR engine not ready yet. Please wait a moment."

CaptureAlert == "Could not capture image from camera."

\* ----------------------------------------------------------------- state
VARIABLES
    imageSrc,        \* useState: data URL preview, or Null
    ocrText,         \* useState: extracted text
    matches,         \* useState: backend results
    warning,         \* useState: warning text, or Null
    loadingOcr,      \* useState
    ocrProgress,     \* useState
    isWorkerReady,   \* useState
    workerRef,       \* useRef: Null or "worker"
    lifecycle,       \* "constructed" | "mounted" | "unmounted" (effect / cleanup ran)
    initPc,          \* position of initWorker: idle, pending (awaiting), ready, failed
    termPc,          \* position of the cleanup's async function: idle, terminate, done, caught
    terminateCalls,  \* number of worker.terminate() invocations
    jobsAtShutdown,  \* history: the number of jobs started before the cleanup ran
    uncaught,        \* rejections no handler caught
    lastAlert,       \* last alert() text, or Null
    reading,         \* images a FileReader is still reading
    nJobs,           \* number of jobs started; the latest job is nJobs
    pc,              \* per job: idle, recognize, fetch, text, json, done, failed
    engProgress,     \* per job: last progress the worker reported for its recognize call
    recognized,      \* history, per job: how its recognize call settled (none, blank, text, error)
    recognizeCalls,  \* per job: worker.recognize() invocations
    fetchCalls,      \* per job: fetch() invocations
    fetchBody,       \* per job: the text in the body of its request in flight, or Null
    pubCount,        \* per job: how often the job published a final matches/warning
    replay           \* history of a replayed run: Null, or the inputs and the first outcome

presentation == <<imageSrc, ocrText, matches, warning, loadingOcr, ocrProgress>>

lifeVars ==
    <<workerRef, lifecycle, initPc, termPc, terminateCalls, jobsAtShutdown, uncaught,
      isWorkerReady>>

jobVars ==
    <<nJobs, pc, engProgress, recognized, recognizeCalls, fetchCalls, fetchBody, pubCount>>

vars == <<imageSrc, ocrText, matches, warning, loadingOcr, ocrProgress, isWorkerReady,
          workerRef, lifecycle, initPc, termPc, terminateCalls, jobsAtShutdown, uncaught,
          lastAlert,
          reading, nJobs, pc, engProgress, recognized, recognizeCalls,
          fetchCalls,
          fetchBody, pubCount, replay>>

\* ------------------------------------------------------- pure functions
RECURSIVE TrimStart(_)
TrimStart(s) ==
    IF s # << >> /\ Head(s) \in Whitespace THEN TrimStart(Tail(s)) ELSE s

RECURSIVE TrimEnd(_)
TrimEnd(s) ==
    IF s # << >> /\ s[Len(s)] \in Whitespace THEN TrimEnd(SubSeq(s, 1, Len(s) - 1)) ELSE s

\* String.prototype.trim
Trim(s) == TrimEnd(TrimStart(s))

\* Math.round(p * 100) for p given in thousandths
RoundPercent(p) == (p + 5) \div 10

\* Whether a recognize result carries only whitespace, or no text at all.
BlankResult(res) ==
    \/ ~res.hasData
    \/ \A i \in 1..Len(res.text) : res.text[i] \in Whitespace

\* (data && data.text) ? data.text.trim() : ''
RecognizedText(res) ==
    IF res.hasData /\ res.text # << >> THEN Trim(res.text) ELSE << >>

\* The guard written as text && !text.trim(): the empty string passes it.
IsBlankOnlyWhenTruthy(text) == text # << >> /\ Trim(text) = << >>

\* !text || !text.trim()
IsBlank(text) == text = << >> \/ Trim(text) = << >>

\* the logger passed to createWorker: the new ocrProgress after message m
Logger(m, cur) ==
    IF m.status = "recognizing text" /\ m.hasProgress THEN RoundPercent(m.progress) ELSE cur

\* data.matches || []
\* A variant that re-orders the list before it is published.
MatchesOfReordered(data) ==
    IF data.hasMatches
      THEN [i \in 1..Len(data.matches) |-> data.matches[Len(data.matches) + 1 - i]]
      ELSE << >>

MatchesOf(data) == IF data.hasMatches THEN data.matches ELSE << >>

\* if (data.warning) setWarning(data.warning), after setWarning(null)
WarningOf(data) == IF data.warning # Null /\ data.warning # "" THEN data.warning ELSE Null

\* ------------------------------------------------------------------ Init
Init ==
    /\ imageSrc = Null
    /\ ocrText = << >>
    /\ matches = << >>
    /\ warning = Null
    /\ loadingOcr = FALSE
    /\ ocrProgress = 0
    /\ isWorkerReady = FALSE
    /\ workerRef = Null
    /\ lifecycle = "constructed"
    /\ initPc = "idle"
    /\ termPc = "idle"
    /\ terminateCalls = 0
    /\ jobsAtShutdown = 0
    /\ uncaught = {}
    /\ lastAlert = Null
    /\ reading = {}
    /\ nJobs = 0
    /\ pc = [j \in JobIds |-> "idle"]
    /\ engProgress = [j \in JobIds |-> -1]
    /\ recognized = [j \in JobIds |-> "none"]
    /\ recognizeCalls = [j \in JobIds |-> 0]
    /\ fetchCalls = [j \in JobIds |-> 0]
    /\ fetchBody = [j \in JobIds |-> Null]
    /\ pubCount = [j \in JobIds |-> 0]
    /\ replay = Null

\* ------------------------------------------------- worker initialization
\* useEffect body: createWorker, workerRef.current = worker, await worker.load().
Mount ==
    /\ lifecycle = "constructed"
    /\ lifecycle' = "mounted"
    /\ workerRef' = "worker"
    /\ initPc' = "pending"
    /\ UNCHANGED <<replay, presentation, isWorkerReady, termPc, terminateCalls, jobsAtShutdown,
                   uncaught, lastAlert, reading, jobVars>>

\* initWorker resumes after its awaits: worker.load(), loadLanguage('eng') and
\* initialize('eng') have all resolved (no state is touched between them);
\* the logger received a message m of the initialization on the way.
InitResolve(m) ==
    /\ initPc = "pending"
    /\ m.status # "recognizing text"
    /\ ocrProgress' = Logger(m, ocrProgress)
    /\ initPc' = "ready"
    /\ isWorkerReady' = TRUE
    /\ UNCHANGED <<replay, imageSrc, ocrText, matches, warning, loadingOcr, workerRef,
                   lifecycle,
                   termPc, terminateCalls, jobsAtShutdown, uncaught, lastAlert, reading,
                   jobVars>>

\* One of the awaited initialization calls rejects: initWorker() rejects and
\* nothing catches it.
InitReject ==
    /\ initPc = "pending"
    /\ initPc' = "failed"
    /\ uncaught' = uncaught \cup {"initWorker"}
    /\ UNCHANGED <<replay, presentation, isWorkerReady, workerRef, lifecycle, termPc,
                   terminateCalls, jobsAtShutdown, lastAlert, reading, jobVars>>

\* ---------------------------------------------------------------- cleanup
\* The effect's cleanup, up to await workerRef.current.terminate().
Unmount ==
    /\ lifecycle = "mounted"
    /\ lifecycle' = "unmounted"
    /\ jobsAtShutdown' = nJobs
    /\ IF workerRef # Null
         THEN /\ terminateCalls' = terminateCalls + 1
              /\ termPc' = "terminate"
         ELSE /\ terminateCalls' = terminateCalls
              /\ termPc' = "done"
    /\ UNCHANGED <<replay, presentation, isWorkerReady, workerRef, initPc, uncaught, lastAlert,
                   reading, jobVars>>

\* terminate() resolves.
TerminateResolve ==
    /\ termPc = "terminate"
    /\ termPc' = "done"
    /\ UNCHANGED <<replay, presentation, isWorkerReady, workerRef, lifecycle, initPc,
                   terminateCalls, jobsAtShutdown, uncaught, lastAlert, reading, jobVars>>

\* A cleanup without the try/catch: the rejection of terminate() escapes.
TerminateRejectEscapes ==
    /\ termPc = "terminate"
    /\ termPc' = "caught"
    /\ uncaught' = uncaught \cup {"cleanup"}
    /\ UNCHANGED <<replay, presentation, isWorkerReady, workerRef, lifecycle, initPc,
                   terminateCalls, jobsAtShutdown, lastAlert, reading, jobVars>>

\* terminate() throws or rejects: catch (e) { /* ignore */ }.
TerminateReject ==
    /\ termPc = "terminate"
    /\ termPc' = "caught"
    /\ uncaught' = uncaught
    /\ UNCHANGED <<replay, presentation, isWorkerReady, workerRef, lifecycle, initPc,
                   terminateCalls, jobsAtShutdown, lastAlert, reading, jobVars>>

\* A variant that sends the ocrText state its closure holds, not its argument.
QueryBackendSendsState(j, text, endPc) ==
    /\ matches' = << >>
    /\ IF IsBlank(text)
         THEN /\ warning' = NoTextWarning
              /\ pc' = [pc EXCEPT ![j] = endPc]
              /\ pubCount' = [pubCount EXCEPT ![j] = @ + 1]
              /\ UNCHANGED <<fetchCalls, fetchBody>>
         ELSE /\ warning' = Null
              /\ pc' = [pc EXCEPT ![j] = "fetch"]
              /\ fetchCalls' = [fetchCalls EXCEPT ![j] = @ + 1]
              /\ fetchBody' = [fetchBody EXCEPT ![j] = ocrText]
              /\ UNCHANGED pubCount

\* A variant that, while a warning is displayed, only dismisses it.
QueryBackendDismissesFirst(j, text, endPc) ==
    IF warning # Null
      THEN /\ warning' = Null
           /\ pc' = [pc EXCEPT ![j] = endPc]
           /\ pubCount' = [pubCount EXCEPT ![j] = @ + 1]
           /\ UNCHANGED <<matches, fetchCalls, fetchBody>>
      ELSE /\ matches' = << >>
           /\ IF IsBlank(text)
                THEN /\ warning' = NoTextWarning
                     /\ pc' = [pc EXCEPT ![j] = endPc]
                     /\ pubCount' = [pubCount EXCEPT ![j] = @ + 1]
                     /\ UNCHANGED <<fetchCalls, fetchBody>>
                ELSE /\ warning' = Null
                     /\ pc' = [pc EXCEPT ![j] = "fetch"]
                     /\ fetchCalls' = [fetchCalls EXCEPT ![j] = @ + 1]
                     /\ fetchBody' = [fetchBody EXCEPT ![j] = text]
                     /\ UNCHANGED pubCount

\* ------------------------------------------------------------ queryBackend
\* queryBackend(text) up to await fetch(...), run by job j; endPc is the
\* position the handler ends in when queryBackend returns without a fetch.
QueryBackend(j, text, endPc) ==
    /\ matches' = << >>
    /\ IF IsBlank(text)
         THEN /\ warning' = NoTextWarning
              /\ pc' = [pc EXCEPT ![j] = endPc]
              /\ pubCount' = [pubCount EXCEPT ![j] = @ + 1]
              /\ UNCHANGED <<fetchCalls, fetchBody>>
         ELSE /\ warning' = Null
              /\ pc' = [pc EXCEPT ![j] = "fetch"]
              /\ fetchCalls' = [fetchCalls EXCEPT ![j] = @ + 1]
              /\ fetchBody' = [fetchBody EXCEPT ![j] = text]
              /\ UNCHANGED pubCount

\* catch (err) { setWarning('Network error when contacting backend.') }
QueryBackendCatch(j) ==
    /\ warning' = NetworkErrorWarning
    /\ pc' = [pc EXCEPT ![j] = "done"]
    /\ pubCount' = [pubCount EXCEPT ![j] = @ + 1]
    /\ fetchBody' = [fetchBody EXCEPT ![j] = Null]
    /\ UNCHANGED <<replay, imageSrc, ocrText, matches, loadingOcr, ocrProgress, lifeVars,
                   lastAlert, reading, nJobs, engProgress, recognized,
                   recognizeCalls,
                   fetchCalls>>

\* fetch resolves with a response whose res.ok is ok: await res.text() or res.json().
FetchResolve(j, ok) ==
    /\ pc[j] = "fetch"
    /\ pc' = [pc EXCEPT ![j] = IF ok THEN "json" ELSE "text"]
    /\ fetchBody' = [fetchBody EXCEPT ![j] = Null]
    /\ UNCHANGED <<replay, presentation, lifeVars, lastAlert, reading, nJobs, engProgress,
                   recognized, recognizeCalls, fetchCalls, pubCount>>

\* A variant without the catch: the rejection of fetch ends the handler.
FetchRejectEscapes(j) ==
    /\ pc[j] = "fetch"
    /\ pc' = [pc EXCEPT ![j] = "crashed"]
    /\ uncaught' = uncaught \cup {"queryBackend"}
    /\ fetchBody' = [fetchBody EXCEPT ![j] = Null]
    /\ UNCHANGED <<replay, presentation, isWorkerReady, workerRef, lifecycle, initPc,
                   termPc, terminateCalls, jobsAtShutdown, lastAlert, reading, nJobs,
                   engProgress, recognized, recognizeCalls, fetchCalls, pubCount>>

\* fetch rejects (transport failure).
FetchReject(j) ==
    /\ pc[j] = "fetch"
    /\ QueryBackendCatch(j)

\* The server error branch without its return: the warning is set and
\* queryBackend goes on to await res.json().
TextResolveNoReturn(j) ==
    /\ pc[j] = "text"
    /\ warning' = ServerErrorWarning
    /\ pc' = [pc EXCEPT ![j] = "json"]
    /\ pubCount' = [pubCount EXCEPT ![j] = @ + 1]
    /\ UNCHANGED <<replay, imageSrc, ocrText, matches, loadingOcr, ocrProgress, lifeVars,
                   lastAlert, reading, nJobs, engProgress, recognized,
                   recognizeCalls,
                   fetchCalls, fetchBody>>

\* res.text() of a non-2xx response resolves: server error warning, return.
TextResolve(j) ==
    /\ pc[j] = "text"
    /\ warning' = ServerErrorWarning
    /\ pc' = [pc EXCEPT ![j] = "done"]
    /\ pubCount' = [pubCount EXCEPT ![j] = @ + 1]
    /\ UNCHANGED <<replay, imageSrc, ocrText, matches, loadingOcr, ocrProgress, lifeVars,
                   lastAlert, reading, nJobs, engProgress, recognized,
                   recognizeCalls,
                   fetchCalls, fetchBody>>

\* res.text() rejects inside the try block.
TextReject(j) ==
    /\ pc[j] = "text"
    /\ QueryBackendCatch(j)

\* res.json() resolves with data: setMatches(data.matches || []), optional warning.
\* A JSON null makes data.matches throw, which the catch block handles.
JsonResolve(j, data) ==
    /\ pc[j] = "json"
    /\ IF data.isObject
         THEN /\ matches' = MatchesOf(data)
              /\ warning' = IF WarningOf(data) # Null THEN WarningOf(data) ELSE warning
              /\ pc' = [pc EXCEPT ![j] = "done"]
              /\ pubCount' = [pubCount EXCEPT ![j] = @ + 1]
              /\ UNCHANGED <<replay, imageSrc, ocrText, loadingOcr, ocrProgress, lifeVars,
                             lastAlert, reading, nJobs, engProgress,
                             recognized, recognizeCalls, fetchCalls, fetchBody>>
         ELSE QueryBackendCatch(j)

\* res.json() rejects (body is not JSON, or the transfer broke).
JsonReject(j) ==
    /\ pc[j] = "json"
    /\ QueryBackendCatch(j)

\* A variant that does not await runOcr before it calls fetch.
StartJobNoAwait(img) ==
    /\ nJobs < MaxJobs
    /\ imageSrc' = img
    /\ IF workerRef = Null
         THEN /\ lastAlert' = NotReadyAlert
              /\ matches' = << >>
              /\ warning' = NoTextWarning
              /\ UNCHANGED <<ocrText, loadingOcr, ocrProgress, jobVars>>
         ELSE /\ loadingOcr' = TRUE
              /\ ocrText' = << >>
              /\ ocrProgress' = 0
              /\ nJobs' = nJobs + 1
              /\ pc' = [pc EXCEPT ![nJobs + 1] = "recognize"]
              /\ recognizeCalls' = [recognizeCalls EXCEPT ![nJobs + 1] = @ + 1]
              /\ fetchCalls' = [fetchCalls EXCEPT ![nJobs + 1] = @ + 1]
              /\ UNCHANGED <<matches, warning, lastAlert, engProgress, recognized,
                             fetchBody, pubCount>>
    /\ UNCHANGED <<replay, lifeVars>>

\* ------------------------------------------------------------------ runOcr
\* setImageSrc(img); runOcr(img) up to await recognize. With no worker,
\* runOcr alerts and returns '', and queryBackend('') runs in the same task.
StartJob(img) ==
    /\ nJobs < MaxJobs
    /\ imageSrc' = img
    /\ IF workerRef = Null
         THEN /\ lastAlert' = NotReadyAlert
              /\ matches' = << >>
              /\ warning' = NoTextWarning
              /\ UNCHANGED <<ocrText, loadingOcr, ocrProgress, jobVars>>
         ELSE /\ loadingOcr' = TRUE
              /\ ocrText' = << >>
              /\ ocrProgress' = 0
              /\ nJobs' = nJobs + 1
              /\ pc' = [pc EXCEPT ![nJobs + 1] = "recognize"]
              /\ recognizeCalls' = [recognizeCalls EXCEPT ![nJobs + 1] = @ + 1]
              /\ UNCHANGED <<matches, warning, lastAlert, engProgress, recognized,
                             fetchCalls, fetchBody, pubCount>>
    /\ UNCHANGED <<replay, lifeVars>>

\* A logger message arrives while job j's recognize call is in flight. The
\* worker reports non-decreasing progress for one recognize call.
LoggerEvent(j, m) ==
    /\ pc[j] = "recognize"
    /\ IF m.status = "recognizing text" /\ m.hasProgress
         THEN /\ m.progress >= engProgress[j]
              /\ engProgress' = [engProgress EXCEPT ![j] = m.progress]
         ELSE UNCHANGED engProgress
    /\ ocrProgress' = Logger(m, ocrProgress)
    /\ UNCHANGED <<replay, imageSrc, ocrText, matches, warning, loadingOcr, lifeVars,
                   lastAlert,
                   reading, nJobs, pc, recognized, recognizeCalls, fetchCalls, fetchBody,
                   pubCount>>

\* recognize resolves: runOcr publishes the text and returns it, and the
\* handler goes on to queryBackend(text).
RecognizeResolve(j, res) ==
    /\ pc[j] = "recognize"
    /\ ocrText' = RecognizedText(res)
    /\ loadingOcr' = FALSE
    /\ engProgress' = [engProgress EXCEPT ![j] = -1]
    /\ recognized' = [recognized EXCEPT ![j] = IF BlankResult(res) THEN "blank" ELSE "text"]
    /\ QueryBackend(j, RecognizedText(res), "done")
    /\ UNCHANGED <<replay, imageSrc, ocrProgress, lifeVars, lastAlert, reading, nJobs,
                   recognizeCalls>>

\* A variant whose catch invokes recognize once more.
RecognizeRejectRetries(j) ==
    /\ pc[j] = "recognize"
    /\ recognizeCalls[j] < 2
    /\ recognizeCalls' = [recognizeCalls EXCEPT ![j] = @ + 1]
    /\ engProgress' = [engProgress EXCEPT ![j] = -1]
    /\ UNCHANGED <<replay, presentation, lifeVars, lastAlert, reading, nJobs, pc,
                   recognized, fetchCalls, fetchBody, pubCount>>

\* recognize rejects: runOcr's catch returns '', and queryBackend('') follows.
RecognizeReject(j) ==
    /\ pc[j] = "recognize"
    /\ loadingOcr' = FALSE
    /\ engProgress' = [engProgress EXCEPT ![j] = -1]
    /\ recognized' = [recognized EXCEPT ![j] = "error"]
    /\ QueryBackend(j, << >>, "failed")
    /\ UNCHANGED <<replay, imageSrc, ocrText, ocrProgress, lifeVars, lastAlert, reading, nJobs,
                   recognizeCalls>>

\* ---------------------------------------------------------------- handlers
\* handleFileChange: no file returns; otherwise a FileReader starts reading.
HandleFileChange(file) ==
    /\ lifecycle = "mounted"
    /\ IF file = Null
         THEN UNCHANGED reading
         ELSE reading' = reading \cup {file}
    /\ UNCHANGED <<replay, presentation, lifeVars, lastAlert, jobVars>>

\* reader.onload: the file has been read as the data URL img.
ReaderOnload(img) ==
    /\ img \in reading
    /\ reading' = reading \ {img}
    /\ StartJob(img)

\* A variant without the check of the screenshot.
HandleCaptureNoCheck(img) ==
    /\ lifecycle = "mounted"
    /\ isWorkerReady
    /\ StartJob(img)
    /\ UNCHANGED reading

\* handleCapture: the button is enabled only while isWorkerReady.
HandleCapture(img) ==
    /\ lifecycle = "mounted"
    /\ isWorkerReady
    /\ IF img = Null
         THEN /\ lastAlert' = CaptureAlert
              /\ UNCHANGED <<replay, presentation, lifeVars, reading, jobVars>>
         ELSE /\ StartJob(img)
              /\ UNCHANGED reading

Next ==
    \/ Mount
    \/ \E m \in LoggerMessages : InitResolve(m)
    \/ InitReject
    \/ Unmount
    \/ TerminateResolve
    \/ TerminateReject
    \/ \E file \in Images \cup {Null} : HandleFileChange(file)
    \/ \E img \in Images : ReaderOnload(img)
    \/ \E img \in Images \cup {Null} : HandleCapture(img)
    \/ \E j \in JobIds, m \in LoggerMessages : LoggerEvent(j, m)
    \/ \E j \in JobIds, res \in RecognizeResults : RecognizeResolve(j, res)
    \/ \E j \in JobIds : RecognizeReject(j)
    \/ \E j \in JobIds, ok \in BOOLEAN : FetchResolve(j, ok)
    \/ \E j \in JobIds : FetchReject(j)
    \/ \E j \in JobIds : TextResolve(j)
    \/ \E j \in JobIds : TextReject(j)
    \/ \E j \in JobIds, data \in JsonBodies : JsonResolve(j, data)
    \/ \E j \in JobIds : JsonReject(j)

Spec == Init /\ [][Next]_vars

\* Job j's recognize call settles.
RecognizeSettles(j) ==
    \/ \E res \in RecognizeResults : RecognizeResolve(j, res)
    \/ RecognizeReject(j)

\* Job j's fetch, res.text() or res.json() settles.
SearchSettles(j) ==
    \/ \E ok \in BOOLEAN : FetchResolve(j, ok)
    \/ FetchReject(j)
    \/ TextResolve(j)
    \/ TextReject(j)
    \/ \E data \in JsonBodies : JsonResolve(j, data)
    \/ JsonReject(j)

\* The program with a worker and a backend that settle every call in the end.
FairSpec ==
    /\ Spec
    /\ \A j \in JobIds : WF_vars(RecognizeSettles(j)) /\ WF_vars(SearchSettles(j))

\* ------------------------------------------- one pipeline run, replayed
\* The ways the backend can answer one request.
ReplayKinds == {"fetchReject", "textResolve", "textReject", "jsonReject", "json"}

\* The warnings a run can find displayed when it starts.
PriorWarnings ==
    {Null, "low confidence", NoTextWarning, ServerErrorWarning, NetworkErrorWarning}

\* What is replayed: how recognize settles and how the backend answers, the
\* same in every run; with the matches and warning displayed before the first
\* run, and those displayed after it once it has ended.
Replays ==
    [ocr : {"resolve"}, res : RecognizeResults, kind : ReplayKinds \ {"json"},
     data : {CHOOSE d \in JsonBodies : ~d.isObject},
     prior : [matches : MatchLists, warning : PriorWarnings],
     first : {[done |-> FALSE, matches |-> << >>, warning |-> Null]}]
        \cup [ocr : {"resolve"}, res : RecognizeResults, kind : {"json"},
               data : JsonBodies,
               prior : [matches : MatchLists, warning : PriorWarnings],
               first : {[done |-> FALSE, matches |-> << >>, warning |-> Null]}]
        \cup [ocr : {"reject"}, res : {CHOOSE r \in RecognizeResults : ~r.hasData},
               kind : {"fetchReject"},
               data : {CHOOSE d \in JsonBodies : ~d.isObject},
               prior : [matches : MatchLists, warning : PriorWarnings],
               first : {[done |-> FALSE, matches |-> << >>, warning |-> Null]}]

\* The engine is Ready and no job is in flight; earlier jobs have left some
\* matches and some warning on display.
SeqInit ==
    /\ replay \in Replays
    /\ imageSrc = Null
    /\ ocrText = << >>
    /\ matches = replay.prior.matches
    /\ warning = replay.prior.warning
    /\ loadingOcr = FALSE
    /\ ocrProgress = 0
    /\ isWorkerReady = TRUE
    /\ workerRef = "worker"
    /\ lifecycle = "mounted"
    /\ initPc = "ready"
    /\ termPc = "idle"
    /\ terminateCalls = 0
    /\ jobsAtShutdown = 0
    /\ uncaught = {}
    /\ lastAlert = Null
    /\ reading = {}
    /\ nJobs = 0
    /\ pc = [j \in JobIds |-> "idle"]
    /\ engProgress = [j \in JobIds |-> -1]
    /\ recognized = [j \in JobIds |-> "none"]
    /\ recognizeCalls = [j \in JobIds |-> 0]
    /\ fetchCalls = [j \in JobIds |-> 0]
    /\ fetchBody = [j \in JobIds |-> Null]
    /\ pubCount = [j \in JobIds |-> 0]

\* Every job started so far has ended.
AllEnded == \A j \in 1..nJobs : pc[j] \in {"done", "failed"}

\* The next run starts when the one before has ended: handleCapture.
SeqStart ==
    /\ AllEnded
    /\ nJobs >= 1 => replay.first.done
    /\ \E img \in Images : HandleCapture(img)

\* recognize settles as replayed, and queryBackend(text) starts.
SeqRecognize ==
    \E j \in JobIds :
        IF replay.ocr = "resolve" THEN RecognizeResolve(j, replay.res)
                                  ELSE RecognizeReject(j)

\* fetch settles as replayed.
SeqFetch ==
    \E j \in JobIds :
        IF replay.kind = "fetchReject"
          THEN FetchReject(j)
          ELSE FetchResolve(j, replay.kind \in {"json", "jsonReject"})

\* res.text() or res.json() settles as replayed.
SeqBody ==
    \E j \in JobIds :
        \/ replay.kind = "textResolve" /\ TextResolve(j)
        \/ replay.kind = "textReject" /\ TextReject(j)
        \/ replay.kind = "jsonReject" /\ JsonReject(j)
        \/ replay.kind = "json" /\ JsonResolve(j, replay.data)

\* The first run has ended: what it left on display is noted.
SeqRecord ==
    /\ nJobs = 1
    /\ AllEnded
    /\ ~replay.first.done
    /\ replay' = [replay EXCEPT !.first = [done |-> TRUE, matches |-> matches,
                                           warning |-> warning]]
    /\ UNCHANGED <<presentation, lifeVars, lastAlert, reading, jobVars>>

SeqNext ==
    \/ SeqStart
    \/ SeqRecognize
    \/ SeqFetch
    \/ SeqBody
    \/ SeqRecord

\* Runs of the pipeline one after the other, each with the same recognize
\* result and the same backend answer.
SeqSpec == SeqInit /\ [][SeqNext]_vars

\* ------------------------------------------------------ derived notions
\* The engine state of the controller, read off the code's state: the worker
\* reference, the position of initWorker and the terminate() call.
EngineState ==
    IF terminateCalls > 0 THEN "Terminated"
    ELSE IF workerRef = Null THEN "Uninitialized"
    ELSE IF initPc = "ready" THEN "Ready"
    ELSE IF initPc = "failed" THEN "InitFailed"
    ELSE "Initializing"

\* A start request reaches the controller: reader.onload or handleCapture runs.
StartRequest ==
    \/ \E img \in Images : ReaderOnload(img)
    \/ \E img \in Images \cup {Null} : HandleCapture(img)

\* A callback of job j's recognize call runs (a progress message or its result).
RecognizeCallback(j) ==
    \/ \E m \in LoggerMessages : LoggerEvent(j, m)
    \/ \E res \in RecognizeResults : RecognizeResolve(j, res)
    \/ RecognizeReject(j)

\* A callback of job j's search runs (fetch, res.text or res.json settles).
SearchCallback(j) ==
    \/ \E ok \in BOOLEAN : FetchResolve(j, ok)
    \/ FetchReject(j)
    \/ TextResolve(j)
    \/ TextReject(j)
    \/ \E data \in JsonBodies : JsonResolve(j, data)
    \/ JsonReject(j)

\* Job j's search fails: the transport fails, or the response is not 2xx.
SearchFailure(j) ==
    \/ FetchReject(j)
    \/ TextResolve(j)
    \/ TextReject(j)

\* ------------------------------------------------------------------ claims

\* C1: once a newer job has started, no callback of an older job (progress,
\* recognition result, catalog result) changes ocrText, matches, warning or
\* ocrProgress.
C1_SupersededJobsAreSilent ==
    [][\A j \in JobIds :
          (j < nJobs /\ (RecognizeCallback(j) \/ SearchCallback(j)))
              => UNCHANGED <<ocrText, matches, warning, ocrProgress>>]_vars

\* C2: while the engine is not Ready, a start request (reader.onload or
\* handleCapture) creates no job, does not invoke recognize and leaves
\* imageSrc, ocrText, matches, warning, loadingOcr and ocrProgress unchanged.
C2_StartRefusedUnlessReady ==
    [][(EngineState # "Ready" /\ StartRequest)
          => UNCHANGED <<nJobs, recognizeCalls, imageSrc, ocrText, matches, warning,
                         loadingOcr, ocrProgress>>]_vars

\* C3: when a job's recognize call returns empty or whitespace-only text, the
\* step publishes matches = [] with the warning "No text found by OCR." and
\* ends the job, and the job issues no fetch, then or later.
C3_BlankTextSkipsSearch ==
    [][\A j \in JobIds :
          /\ (recognized[j] = "none" /\ recognized'[j] = "blank")
                => /\ matches' = << >>
                   /\ warning' = NoTextWarning
                   /\ pc'[j] = "done"
          /\ recognized'[j] = "blank" => fetchCalls'[j] = 0]_vars

\* A job whose recognized text was blank has ended and shows its outcome.
C3_Witness ==
    \E j \in JobIds :
        /\ recognized[j] = "blank"
        /\ pc[j] = "done"
        /\ fetchCalls[j] = 0
        /\ matches = << >>
        /\ warning = NoTextWarning

\* C4: while one job is the latest job and recognizing, the published
\* ocrProgress never decreases and stays within 0..100.
C4_ProgressMonotoneAndBounded ==
    [][(nJobs > 0 /\ nJobs' = nJobs /\ pc[nJobs] = "recognize")
          => (ocrProgress' >= ocrProgress /\ ocrProgress' \in 0..100)]_vars

\* C5: after the cleanup ran, terminate() has been invoked exactly once,
\* whatever the engine state and the jobs in flight, and a failure of
\* terminate() is not among the uncaught rejections.
C5_TerminateOnceAndSwallowed ==
    /\ lifecycle = "unmounted" => terminateCalls = 1
    /\ lifecycle # "unmounted" => terminateCalls = 0
    /\ "cleanup" \notin uncaught

\* terminate() was invoked with a job in flight, and failed.
C5_Witness ==
    /\ termPc = "caught"
    /\ terminateCalls = 1
    /\ \E j \in JobIds : j <= jobsAtShutdown /\ pc[j] = "recognize"

\* C6: after the cleanup ran, a callback of a recognize or search call that
\* was in flight at the cleanup changes no presentation state and issues no
\* fetch.
C6_LateCallbacksAreNoOps ==
    [][\A j \in JobIds :
          (/\ lifecycle = "unmounted"
           /\ j <= jobsAtShutdown
           /\ (RecognizeCallback(j) \/ SearchCallback(j)))
              => /\ UNCHANGED <<imageSrc, ocrText, matches, warning, loadingOcr,
                                ocrProgress>>
                 /\ fetchCalls' = fetchCalls]_vars

\* C7: when a job's recognize call fails, the job ends Failed, the text and the
\* progress shown are cleared, and the job issues no fetch.
C7_RecognitionFailureClears ==
    [][\A j \in JobIds :
          RecognizeReject(j)
              => /\ pc'[j] = "failed"
                 /\ ocrText' = << >>
                 /\ ocrProgress' = 0
                 /\ fetchCalls'[j] = fetchCalls[j]]_vars

\* C8: when a job's search fails (transport failure or non-2xx response), the
\* outcome then shown has matches = [] and a warning, and the job has ended.
C8_SearchFailureClearsMatches ==
    [][\A j \in JobIds :
          SearchFailure(j)
              => /\ matches' = << >>
                 /\ warning' # Null
                 /\ pc'[j] = "done"]_vars

\* C9: the engine state only moves forward, never from Ready back to
\* Initializing, and once terminate() has been invoked isWorkerReady is not
\* set to true.
C9_EngineStateForward ==
    [][/\ EngineState = "Ready" => EngineState' \in {"Ready", "Terminated"}
       /\ EngineState = "Terminated" => EngineState' = "Terminated"
       /\ EngineState # "Uninitialized" => EngineState' # "Uninitialized"
       /\ terminateCalls > 0 => (isWorkerReady' => isWorkerReady)]_vars

\* C10: every job publishes a final matches/warning at most once, and exactly
\* once by the time its handler has ended.
C10_OutcomePublishedOnce ==
    \A j \in JobIds :
        /\ pubCount[j] <= 1
        /\ pc[j] \in {"done", "failed"} => pubCount[j] = 1

\* Two jobs have both ended, one through a server error and its res.text().
C10_Witness ==
    /\ nJobs >= 2
    /\ pc[1] = "done"
    /\ pc[2] = "done"
    /\ warning = ServerErrorWarning
    /\ fetchCalls[1] = 1
    /\ fetchCalls[2] = 1

\* C11: when a job's res.json() resolves with an object, the step publishes
\* exactly the response's matches in the response's order, the empty list when
\* the field is absent, and a non-empty warning of the response verbatim next to
\* the matches.
C11_ResponsePublished ==
    [][\A j \in JobIds :
          (pc[j] = "json" /\ pc'[j] = "done")
              => \A data \in JsonBodies :
                    (data.isObject /\ JsonResolve(j, data))
                        => /\ matches' = IF data.hasMatches THEN data.matches
                                                            ELSE << >>
                           /\ data.warning \notin {Null, ""}
                                 => warning' = data.warning]_vars

\* A job has ended with a response that carried two matches and a warning.
C11_Witness ==
    \E j \in JobIds :
        /\ pc[j] = "done"
        /\ fetchCalls[j] = 1
        /\ matches = <<"m2", "m1">>
        /\ warning = "low confidence"

\* C11 as stated: every warning present in the response, the empty string
\* included, is published verbatim.
C11_EveryWarningPublished ==
    [][\A j \in JobIds :
          (pc[j] = "json" /\ pc'[j] = "done")
              => \A data \in JsonBodies :
                    (data.isObject /\ JsonResolve(j, data))
                        => /\ matches' = IF data.hasMatches THEN data.matches
                                                            ELSE << >>
                           /\ data.warning # Null
                                 => warning' = data.warning]_vars

\* C12: when the pipeline runs again on the same text with the same backend
\* answer, the matches and the warning it leaves are those the first run left,
\* whatever was displayed before the first run.
C12_QueryBackendIdempotent ==
    (replay.first.done /\ nJobs >= 2 /\ AllEnded)
        => /\ matches = replay.first.matches
           /\ warning = replay.first.warning

\* A second run has ended on a JSON answer with matches and a warning, after a
\* first run that started from another list and another warning.
C12_Witness ==
    /\ replay.first.done
    /\ nJobs >= 2
    /\ AllEnded
    /\ replay.kind = "json"
    /\ matches = <<"m2", "m1">>
    /\ warning = "low confidence"
    /\ replay.prior.matches = << >>
    /\ replay.prior.warning = NetworkErrorWarning

\* C13: when getScreenshot() returns null or no file was chosen, the handler
\* starts no job, invokes neither recognize nor fetch, starts no FileReader and
\* leaves imageSrc, ocrText, matches, warning, loadingOcr and ocrProgress as
\* they were.
C13_NoImageRefused ==
    [][(HandleCapture(Null) \/ HandleFileChange(Null))
          => UNCHANGED <<imageSrc, ocrText, matches, warning, loadingOcr, ocrProgress,
                         nJobs, pc, recognizeCalls, fetchCalls, reading>>]_vars

\* A capture without a screenshot was refused while a job was recognizing and
\* an earlier outcome was on display.
C13_Witness ==
    /\ lastAlert = CaptureAlert
    /\ nJobs = 2
    /\ pc[2] = "recognize"
    /\ loadingOcr
    /\ matches = <<"m2", "m1">>

\* C14: nothing is retried. initWorker is entered once, from the effect, and
\* after it failed the engine stays not Ready; every job invokes recognize at
\* most once and fetch at most once.
C14_NothingRetried ==
    [][/\ \A j \in JobIds : recognizeCalls'[j] <= 1 /\ fetchCalls'[j] <= 1
       /\ initPc # "idle" => initPc' # "idle"
       /\ (initPc # "pending" /\ initPc' = "pending") => initPc = "idle"
       /\ initPc = "failed" => (initPc' = "failed" /\ ~isWorkerReady')]_vars

\* The initialization failed, one job's recognize call failed and another
\* job's fetch failed; each was invoked once.
C14_Witness ==
    /\ initPc = "failed"
    /\ ~isWorkerReady
    /\ pc[1] = "failed"
    /\ recognizeCalls[1] = 1
    /\ fetchCalls[1] = 0
    /\ pc[2] = "done"
    /\ recognizeCalls[2] = 1
    /\ fetchCalls[2] = 1
    /\ warning = NetworkErrorWarning

\* C15: within a job the stages are ordered: fetch is not invoked before the
\* job's recognize call has settled, and the job publishes no final matches
\* and warning before its search has settled or was skipped.
C15_StagesOrdered ==
    \A j \in JobIds :
        /\ fetchCalls[j] > 0 => recognized[j] # "none"
        /\ pc[j] = "recognize" => (fetchCalls[j] = 0 /\ pubCount[j] = 0)
        /\ pc[j] \in {"fetch", "text", "json"} => pubCount[j] = 0
        /\ pubCount[j] > 0 => pc[j] \in {"done", "failed"}

\* Job 1 waits for the answer to its request while job 2 is recognizing.
C15_Witness ==
    /\ pc[1] = "json"
    /\ recognized[1] = "text"
    /\ fetchCalls[1] = 1
    /\ pc[2] = "recognize"
    /\ fetchCalls[2] = 0

\* C16: at any time at most one recognize call is in flight on the worker.
C16_OneRecognizeInFlight ==
    Cardinality({j \in JobIds : pc[j] = "recognize"}) <= 1

\* C17: when every recognize call and every search call settles, every started
\* job ends (done or failed), loadingOcr is false again, and no failure of a
\* job is left uncaught.
C17_JobsTerminate ==
    /\ \A j \in JobIds : (pc[j] # "idle") ~> (pc[j] \in {"done", "failed"})
    /\ loadingOcr ~> ~loadingOcr
    /\ [](uncaught \subseteq {"initWorker"})

\* Both jobs have ended after failures: a failed recognize call and a failed
\* fetch; the loading indicator is off.
C17_Witness ==
    /\ pc[1] = "failed"
    /\ recognized[1] = "error"
    /\ pc[2] = "done"
    /\ warning = NetworkErrorWarning
    /\ ~loadingOcr
    /\ uncaught \subseteq {"initWorker"}

\* C18: loadingOcr is true exactly while the job started last is recognizing.
C18_LoadingTracksLatest ==
    loadingOcr <=> (nJobs > 0 /\ pc[nJobs] = "recognize")

\* C19: while the job started last is recognizing, no matches and no warning
\* of an earlier job are displayed.
C19_OutcomeCoherent ==
    (nJobs > 0 /\ pc[nJobs] = "recognize") => (matches = << >> /\ warning = Null)

\* C20: the text in the body of a job's request is the trimmed text of that
\* job's own recognize result, a request goes out only for text that is not
\* blank, and no step of another job changes the text of a request in flight.
C20_SentTextIsOwnText ==
    [][\A j \in JobIds :
          /\ (recognized[j] = "none" /\ recognized'[j] = "text")
                => \A res \in RecognizeResults :
                      (~BlankResult(res) /\ RecognizeResolve(j, res))
                          => fetchBody'[j] = Trim(res.text)
          /\ recognized'[j] \in {"blank", "error"} => fetchBody'[j] = Null
          /\ (pc[j] = "fetch" /\ pc'[j] = "fetch") => fetchBody'[j] = fetchBody[j]
          /\ fetchBody'[j] # Null => pc'[j] = "fetch"]_vars

\* Two requests are in flight, each with its own job's text; job 2's recognize
\* call settled first, so ocrText shows job 1's text.
C20_Witness ==
    /\ pc[1] = "fetch"
    /\ pc[2] = "fetch"
    /\ fetchBody[1] = <<"a">>
    /\ fetchBody[2] = <<"b">>
    /\ ocrText = <<"a">>
====
